---------------------------- MODULE Spec2Model ----------------------------
(***************************************************************************)
(* Model of the InteractionIntegral element-integral postprocessor         *)
(* (src/unnamed/part_000): construction, initialSetup, the per-element     *)
(* computeIntegral / computeQpIntegral kernel, and getValue's reduction,   *)
(* T-stress correction and scaling.  One object lives on every partition   *)
(* (MPI rank); the partitions meet only in getValue's gatherSum.           *)
(***************************************************************************)
EXTENDS Integers, Sequences, FiniteSets, TLC

(***************************************************************************)
(* Bounds of the model.                                                    *)
(***************************************************************************)
NumProcs == 2          \* partitions (ranks), each with its own object
NumElems == 2          \* elements of the ring domain
MaxGetValueCalls == 2  \* getValue calls per pass in SpecAnyCalls

Procs == 1..NumProcs
Elems == 1..NumElems

(***************************************************************************)
(* Real is double: IEEE 754 binary64 with round-to-nearest-even.  A value  *)
(* is [k, s, m, e]: k = "finite" is (-1)^s * m * 2^e with m an odd natural *)
(* number (or zero, e = 0), k = "inf" is the infinity of sign s, k = "nan" *)
(* is NaN.  m is a natural number of any size, held as a sequence of       *)
(* 15-bit limbs, least significant first, without leading zero limbs;      *)
(* zero is the empty sequence.                                             *)
(***************************************************************************)
Abs(x) == IF x < 0 THEN -x ELSE x
Max(a, b) == IF a >= b THEN a ELSE b
Min(a, b) == IF a <= b THEN a ELSE b

Radix == 2^15
MantissaBits == 53
MinExponent == -1074
MaxExponent == 1024

LimbAt(a, i) == IF i <= Len(a) THEN a[i] ELSE 0

RECURSIVE BigTrim(_)
BigTrim(a) ==
    IF a = <<>> THEN a
    ELSE IF a[Len(a)] = 0 THEN BigTrim(SubSeq(a, 1, Len(a) - 1)) ELSE a

RECURSIVE BigFromNat(_)
BigFromNat(n) == IF n = 0 THEN <<>> ELSE <<n % Radix>> \o BigFromNat(n \div Radix)

RECURSIVE BigAddFrom(_, _, _, _, _)
BigAddFrom(a, b, i, carry, acc) ==
    IF i > Len(a) /\ i > Len(b)
    THEN (IF carry = 0 THEN acc ELSE Append(acc, carry))
    ELSE BigAddFrom(a, b, i + 1, (LimbAt(a, i) + LimbAt(b, i) + carry) \div Radix,
                    Append(acc, (LimbAt(a, i) + LimbAt(b, i) + carry) % Radix))
BigAdd(a, b) == BigAddFrom(a, b, 1, 0, <<>>)

\* a - b for a >= b
RECURSIVE BigSubFrom(_, _, _, _, _)
BigSubFrom(a, b, i, borrow, acc) ==
    IF i > Len(a) THEN BigTrim(acc)
    ELSE BigSubFrom(a, b, i + 1,
                    IF a[i] - LimbAt(b, i) - borrow < 0 THEN 1 ELSE 0,
                    Append(acc, (a[i] - LimbAt(b, i) - borrow) % Radix))
BigSub(a, b) == BigSubFrom(a, b, 1, 0, <<>>)

\* -1, 0, 1 as a < b, a = b, a > b
RECURSIVE BigCmpFrom(_, _, _)
BigCmpFrom(a, b, i) ==
    IF i = 0 THEN 0
    ELSE IF a[i] < b[i] THEN -1
    ELSE IF a[i] > b[i] THEN 1
    ELSE BigCmpFrom(a, b, i - 1)
BigCmp(a, b) ==
    IF Len(a) < Len(b) THEN -1
    ELSE IF Len(a) > Len(b) THEN 1
    ELSE BigCmpFrom(a, b, Len(a))

\* a * k + carry for one limb k
RECURSIVE BigMulLimbFrom(_, _, _, _, _)
BigMulLimbFrom(a, k, i, carry, acc) ==
    IF i > Len(a)
    THEN (IF carry = 0 THEN acc ELSE Append(acc, carry))
    ELSE BigMulLimbFrom(a, k, i + 1, (a[i] * k + carry) \div Radix,
                        Append(acc, (a[i] * k + carry) % Radix))
BigMulLimb(a, k, carry) == BigTrim(BigMulLimbFrom(a, k, 1, carry, <<>>))

RECURSIVE ZeroLimbs(_)
ZeroLimbs(n) == IF n = 0 THEN <<>> ELSE <<0>> \o ZeroLimbs(n - 1)
BigShlLimbs(a, n) == IF a = <<>> THEN a ELSE ZeroLimbs(n) \o a

RECURSIVE BigMulFrom(_, _, _, _)
BigMulFrom(a, b, j, acc) ==
    IF j > Len(b) THEN acc
    ELSE BigMulFrom(a, b, j + 1,
                    BigAdd(acc, BigShlLimbs(BigMulLimb(a, b[j], 0), j - 1)))
BigMul(a, b) == BigMulFrom(a, b, 1, <<>>)

BigShl(a, bits) == BigShlLimbs(BigMulLimb(a, 2^(bits % 15), 0), bits \div 15)

RECURSIVE BigShrSmallFrom(_, _, _, _)
BigShrSmallFrom(a, r, i, acc) ==
    IF i > Len(a) THEN BigTrim(acc)
    ELSE BigShrSmallFrom(a, r, i + 1,
                         Append(acc, (a[i] \div (2^r)) + (LimbAt(a, i + 1) % (2^r)) * (2^(15 - r))))
BigDropLimbs(a, n) == IF n >= Len(a) THEN <<>> ELSE SubSeq(a, n + 1, Len(a))
BigShr(a, bits) ==
    IF bits % 15 = 0 THEN BigDropLimbs(a, bits \div 15)
    ELSE BigShrSmallFrom(BigDropLimbs(a, bits \div 15), bits % 15, 1, <<>>)

RECURSIVE BitLenNat(_)
BitLenNat(n) == IF n = 0 THEN 0 ELSE 1 + BitLenNat(n \div 2)
BitLen(a) == IF a = <<>> THEN 0 ELSE 15 * (Len(a) - 1) + BitLenNat(a[Len(a)])

\* bit i of a, bit 0 the least significant
BigBit(a, i) == (LimbAt(a, i \div 15 + 1) \div (2^(i % 15))) % 2

\* is one of the low n bits of a set
RECURSIVE AnyLimbSet(_, _)
AnyLimbSet(a, n) == IF n = 0 THEN FALSE ELSE LimbAt(a, n) # 0 \/ AnyLimbSet(a, n - 1)
BigLowBitsSet(a, n) ==
    AnyLimbSet(a, Min(n \div 15, Len(a))) \/ (LimbAt(a, n \div 15 + 1) % (2^(n % 15))) # 0

RECURSIVE TrailingZerosNat(_)
TrailingZerosNat(n) == IF n % 2 = 1 THEN 0 ELSE 1 + TrailingZerosNat(n \div 2)
RECURSIVE TrailingZerosFrom(_, _)
TrailingZerosFrom(a, i) ==
    IF a[i] = 0 THEN 15 + TrailingZerosFrom(a, i + 1) ELSE TrailingZerosNat(a[i])
\* for a # 0
TrailingZeros(a) == TrailingZerosFrom(a, 1)

Zero(s) == [k |-> "finite", s |-> s, m |-> <<>>, e |-> 0]
Inf(s) == [k |-> "inf", s |-> s, m |-> <<>>, e |-> 0]
NaN == [k |-> "nan", s |-> 0, m |-> <<>>, e |-> 0]
IsFinite(x) == x.k = "finite"
IsZero(x) == x.k = "finite" /\ x.m = <<>>

\* the exact value (-1)^s * n * 2^e, n # 0, with n made odd
OddMantissa(s, n, e, tz) == [k |-> "finite", s |-> s, m |-> BigShr(n, tz), e |-> e + tz]
Dyadic(s, n, e) == IF n = <<>> THEN Zero(s) ELSE OddMantissa(s, n, e, TrailingZeros(n))

\* the double nearest to (-1)^s * n * 2^e, ties to even; beyond the largest
\* double it is an infinity, below the smallest normal it is a subnormal or zero
Pack(s, n, e) ==
    IF n = <<>> THEN Zero(s)
    ELSE IF BitLen(n) + e > MaxExponent THEN Inf(s)
    ELSE Dyadic(s, n, e)
RoundKept(s, kept, e, up) == Pack(s, IF up THEN BigAdd(kept, <<1>>) ELSE kept, e)
RoundDrop(s, n, e, drop) ==
    IF drop = 0 THEN Pack(s, n, e)
    ELSE RoundKept(s, BigShr(n, drop), e + drop,
                   BigBit(n, drop - 1) = 1
                   /\ (BigLowBitsSet(n, drop - 1) \/ BigBit(n, drop) = 1))
Round(s, n, e) == RoundDrop(s, n, e, Max(Max(BitLen(n) - MantissaBits, MinExponent - e), 0))

\* int to double
R(i) == Dyadic(IF i < 0 THEN 1 ELSE 0, BigFromNat(Abs(i)), 0)

\* the exact sum of two finite values
ExactAddAligned(sa, na, sb, nb, e) ==
    IF sa = sb THEN Dyadic(sa, BigAdd(na, nb), e)
    ELSE IF BigCmp(na, nb) = 0 THEN Zero(0)
    ELSE IF BigCmp(na, nb) > 0 THEN Dyadic(sa, BigSub(na, nb), e)
    ELSE Dyadic(sb, BigSub(nb, na), e)
ExactAdd(a, b) ==
    IF a.m = <<>> /\ b.m = <<>> THEN Zero(IF a.s = b.s THEN a.s ELSE 0)
    ELSE IF a.m = <<>> THEN b
    ELSE IF b.m = <<>> THEN a
    ELSE IF a.e >= b.e
    THEN ExactAddAligned(a.s, BigShl(a.m, a.e - b.e), b.s, b.m, b.e)
    ELSE ExactAddAligned(a.s, a.m, b.s, BigShl(b.m, b.e - a.e), a.e)
Rounded(x) == Round(x.s, x.m, x.e)

\* position of the leading bit of a non-zero finite value
TopBit(x) == x.e + BitLen(x.m) - 1
\* a + b where b is too small to reach a's rounding position: b only says on
\* which side of a the sum lies
AddTiny(a, b) ==
    Rounded(ExactAdd(a, [k |-> "finite", s |-> b.s, m |-> <<1>>,
                         e |-> TopBit(a) - MantissaBits - 5]))
AddFinite(a, b) ==
    IF a.m = <<>> \/ b.m = <<>> THEN Rounded(ExactAdd(a, b))
    ELSE IF TopBit(b) < TopBit(a) - MantissaBits - 4 THEN AddTiny(a, b)
    ELSE IF TopBit(a) < TopBit(b) - MantissaBits - 4 THEN AddTiny(b, a)
    ELSE Rounded(ExactAdd(a, b))

\* Real operator+ (and +=)
RealAdd(a, b) ==
    IF a.k = "nan" \/ b.k = "nan" THEN NaN
    ELSE IF a.k = "inf" THEN (IF b.k = "inf" /\ b.s # a.s THEN NaN ELSE a)
    ELSE IF b.k = "inf" THEN b
    ELSE AddFinite(a, b)

\* Real operator* (and *=)
RealMul(a, b) ==
    IF a.k = "nan" \/ b.k = "nan" THEN NaN
    ELSE IF a.k = "inf" \/ b.k = "inf"
    THEN (IF IsZero(a) \/ IsZero(b) THEN NaN ELSE Inf((a.s + b.s) % 2))
    ELSE Round((a.s + b.s) % 2, BigMul(a.m, b.m), a.e + b.e)

\* one limb of a quotient: r \div den and r % den for r < den * Radix, the
\* quotient limb found bit by bit from bit b down
RECURSIVE DivideLimbFrom(_, _, _, _)
DivideLimbFrom(r, den, b, digit) ==
    IF b < 0 THEN [digit |-> digit, rem |-> r]
    ELSE IF BigCmp(r, BigMulLimb(den, 2^b, 0)) >= 0
    THEN DivideLimbFrom(BigSub(r, BigMulLimb(den, 2^b, 0)), den, b - 1, digit + 2^b)
    ELSE DivideLimbFrom(r, den, b - 1, digit)
DivideLimb(r, den) ==
    IF BigCmp(r, den) < 0 THEN [digit |-> 0, rem |-> r]
    ELSE IF Len(den) = 1
    THEN [digit |-> (LimbAt(r, 2) * Radix + r[1]) \div den[1],
          rem |-> BigFromNat((LimbAt(r, 2) * Radix + r[1]) % den[1])]
    ELSE DivideLimbFrom(r, den, 14, 0)

\* long division of num by den, limb by limb from the top of num (i is the
\* next limb of num, d the quotient limb and remainder of the limb before, q
\* the quotient so far): the quotient and the remainder
PushLimb(rem, limb) == BigTrim(<<limb>> \o rem)
RECURSIVE DivideFrom(_, _, _, _, _)
DivideFrom(num, den, i, d, q) ==
    IF i = 0 THEN [q |-> BigTrim(<<d.digit>> \o q), rem |-> d.rem]
    ELSE DivideFrom(num, den, i - 1, DivideLimb(PushLimb(d.rem, num[i]), den),
                    <<d.digit>> \o q)
Divide(num, den) == DivideFrom(num, den, Len(num), [digit |-> 0, rem |-> <<>>], <<>>)

\* the quotient of two odd mantissas: exact through a divisor of 1, else the
\* dividend is shifted left until the quotient has more bits than a mantissa,
\* and a remainder is kept as one more bit below them for the rounding
QuotientRounded(s, e, d) == Round(s, BigMulLimb(d.q, 2, IF d.rem = <<>> THEN 0 ELSE 1), e - 1)
QuotientShifted(s, na, nb, e, zeros) ==
    QuotientRounded(s, e - zeros, Divide(BigShl(na, zeros), nb))
Quotient(s, na, nb, e) ==
    IF nb = <<1>> THEN Round(s, na, e)
    ELSE QuotientShifted(s, na, nb, e, Max(0, MantissaBits + 3 + BitLen(nb) - BitLen(na)))

\* Real operator/ : x / 0 is an infinity, 0 / 0 is NaN, nothing traps
RealDiv(a, b) ==
    IF a.k = "nan" \/ b.k = "nan" THEN NaN
    ELSE IF a.k = "inf" THEN (IF b.k = "inf" THEN NaN ELSE Inf((a.s + b.s) % 2))
    ELSE IF b.k = "inf" THEN Zero((a.s + b.s) % 2)
    ELSE IF IsZero(b) THEN (IF IsZero(a) THEN NaN ELSE Inf((a.s + b.s) % 2))
    ELSE IF IsZero(a) THEN Zero((a.s + b.s) % 2)
    ELSE Quotient((a.s + b.s) % 2, a.m, b.m, a.e - b.e)

(***************************************************************************)
(* unsigned int: 32 bits kept as two 16-bit limbs <<hi, lo>>.              *)
(***************************************************************************)
Limb == 2^16
U32(n) == <<n \div Limb, n % Limb>>
U32Sub(a, b) ==
    LET lo == a[2] - b[2]
        borrow == IF lo < 0 THEN 1 ELSE 0
    IN  <<(a[1] - b[1] - borrow) % Limb, lo % Limb>>
U32Less(a, b) == a[1] < b[1] \/ (a[1] = b[1] /\ a[2] < b[2])
U32Max == <<Limb - 1, Limb - 1>>

(***************************************************************************)
(* ColumnMajorMatrix (3x3, zero-initialised) and RealVectorValue over the  *)
(* integers: the field data of the model are integer valued, so these      *)
(* products are exact.                                                     *)
(***************************************************************************)
Dim3 == 1..3
ZeroVector == <<0, 0, 0>>
ZeroMatrix == <<ZeroVector, ZeroVector, ZeroVector>>
MatEntry(A, B, i, j) == A[i][1] * B[1][j] + A[i][2] * B[2][j] + A[i][3] * B[3][j]
MatRow(A, B, i) == <<MatEntry(A, B, i, 1), MatEntry(A, B, i, 2), MatEntry(A, B, i, 3)>>
MatMul(A, B) == <<MatRow(A, B, 1), MatRow(A, B, 2), MatRow(A, B, 3)>>
Transpose(A) ==
    << <<A[1][1], A[2][1], A[3][1]>>,
       <<A[1][2], A[2][2], A[3][2]>>,
       <<A[1][3], A[2][3], A[3][3]>> >>
VecEntry(A, v, i) == A[i][1] * v[1] + A[i][2] * v[2] + A[i][3] * v[3]
MatVec(A, v) == <<VecEntry(A, v, 1), VecEntry(A, v, 2), VecEntry(A, v, 3)>>
RowDot(A, B, i) == A[i][1] * B[i][1] + A[i][2] * B[i][2] + A[i][3] * B[i][3]
doubleContraction(A, B) == RowDot(A, B, 1) + RowDot(A, B, 2) + RowDot(A, B, 3)

\* A SymmTensor's six components laid out as a dense matrix
DenseSymm(s) ==
    << <<s.xx, s.xy, s.xz>>,
       <<s.xy, s.yy, s.yz>>,
       <<s.xz, s.yz, s.zz>> >>


RECURSIVE SumInt(_, _)
SumInt(f, n) == IF n = 0 THEN 0 ELSE SumInt(f, n - 1) + f[n]

(***************************************************************************)
(* The crack-front definition user object (CrackFrontDefinition), consumed *)
(* through its interface.  Three crack-front points (indices 0, 1, 2):     *)
(* an end point, an interior point and a degenerate point whose forward    *)
(* and backward segments both have length zero.                            *)
(***************************************************************************)
RotIdentity == << <<1, 0, 0>>, <<0, 1, 0>>, <<0, 0, 1>> >>
RotAboutZ == << <<0, 1, 0>>, <<-1, 0, 0>>, <<0, 0, 1>> >>
RotAboutX == << <<1, 0, 0>>, <<0, 0, 1>>, <<0, -1, 0>> >>

CrackFrontPoints ==
    << [forward |-> 1, backward |-> 0, tangential_strain |-> 2, rot |-> RotIdentity],
       [forward |-> 2, backward |-> 1, tangential_strain |-> 3, rot |-> RotAboutZ],
       [forward |-> 0, backward |-> 0, tangential_strain |-> 1, rot |-> RotAboutX] >>
PointIndices == 0..(Len(CrackFrontPoints) - 1)

\* the rings the crack-front definition knows: radii for the geometric
\* q-function (internal indices 0 .. n_radii-1), ring ids for the topological
CrackFrontRings == [n_radii |-> 2, ring_first |-> 1, ring_last |-> 2]

\* the flag treatAs2D() returns
treatAs2D(cfd) == cfd.treat_as_2d
getCrackFrontForwardSegmentLength(point) == R(CrackFrontPoints[point + 1].forward)
getCrackFrontBackwardSegmentLength(point) == R(CrackFrontPoints[point + 1].backward)
getCrackFrontTangentialStrain(point) == R(CrackFrontPoints[point + 1].tangential_strain)
rotateVectorToCrackFrontCoords(v, point) == MatVec(CrackFrontPoints[point + 1].rot, v)
rotateToCrackFrontCoords(T, point) ==
    LET rot == CrackFrontPoints[point + 1].rot
    IN  MatMul(MatMul(rot, T), Transpose(rot))

\* is the internal ring index one the generator can serve
GeometryRingInRange(ring) == U32Less(ring, U32(CrackFrontRings.n_radii))
TopologyRingInRange(ring) ==
    /\ ~U32Less(ring, U32(CrackFrontRings.ring_first))
    /\ ~U32Less(U32(CrackFrontRings.ring_last), ring)
\* nodal weights in [0, 1] for an in-range ring
DomainIntegralQFunction(point, ring, node) == IF node <= ring[2] + 2 THEN 1 ELSE 0
DomainIntegralTopologicalQFunction(point, ring, node) ==
    IF node <= ring[2] + 1 THEN 1 ELSE 0
\* what an out-of-range read can hand back
QGarbage == {0, 1}

(***************************************************************************)
(* The mesh: elements of two shapes, first-order Lagrange shape functions  *)
(* on the element's quadrature rule (phi[i][qp], dphi[i][qp]), quadrature  *)
(* weights JxW and coordinate factors coord.                               *)
(***************************************************************************)
ShapeA ==
    [n_nodes |-> 3, dim |-> 3, n_points |-> 2,
     phi |-> << <<1, 0>>, <<0, 1>>, <<0, 0>> >>,
     dphi |-> << << <<1, 0, 0>>, <<1, 0, 1>> >>,
                 << <<-1, 1, 0>>, <<-1, 1, 0>> >>,
                 << <<0, -1, 0>>, <<0, -1, -1>> >> >>,
     JxW |-> <<1, 2>>, coord |-> <<1, 1>>]
ShapeB ==
    [n_nodes |-> 2, dim |-> 2, n_points |-> 1,
     phi |-> << <<1>>, <<1>> >>,
     dphi |-> << << <<1, 1, 0>> >>, << <<-1, 0, 0>> >> >>,
     JxW |-> <<3>>, coord |-> <<2>>]
Elem(e) == IF e % 2 = 1 THEN ShapeA ELSE ShapeB
\* global id of local node i (1-based here) of element e
get_node(e, i) == e + i - 1

(***************************************************************************)
(* Field data at a quadrature point: two samples, laid out so that         *)
(* neighbouring points and elements differ.                                *)
(***************************************************************************)
FieldA ==
    [stress |-> [xx |-> 1, yy |-> 2, zz |-> 0, xy |-> 1, yz |-> 0, xz |-> 0],
     strain |-> [xx |-> 1, yy |-> 0, zz |-> 1, xy |-> 1, yz |-> 0, xz |-> 0],
     grad_disp_x |-> <<1, 0, 0>>, grad_disp_y |-> <<1, 1, 0>>,
     grad_disp_z |-> <<0, 0, 1>>, grad_temp |-> <<2, 0, 1>>,
     aux_stress |-> << <<2, 1, 0>>, <<1, 2, 0>>, <<0, 0, 1>> >>,
     aux_grad_disp |-> << <<1, 1, 0>>, <<0, 1, 0>>, <<0, 0, 0>> >>,
     thermal_expansion_coef |-> 1]
FieldB ==
    [stress |-> [xx |-> 0, yy |-> 1, zz |-> 1, xy |-> 0, yz |-> 1, xz |-> 1],
     strain |-> [xx |-> 0, yy |-> 2, zz |-> 0, xy |-> 0, yz |-> 1, xz |-> 1],
     grad_disp_x |-> <<0, 1, 1>>, grad_disp_y |-> <<0, 2, 0>>,
     grad_disp_z |-> <<1, 0, 0>>, grad_temp |-> <<1, 3, 0>>,
     aux_stress |-> << <<1, 0, 1>>, <<0, 0, 1>>, <<1, 1, 2>> >>,
     aux_grad_disp |-> << <<0, 1, 2>>, <<1, 0, 0>>, <<0, 0, 1>> >>,
     thermal_expansion_coef |-> 2]
FieldAt(e, qp) == IF (e + qp) % 2 = 0 THEN FieldA ELSE FieldB

(***************************************************************************)
(* InteractionIntegral::computeQpIntegral.  o is the object's members,     *)
(* is_2d the crack-front definition's flag, q the nodal weights            *)
(* (_q_curr_elem), f the field data at the point, coef what dereferencing  *)
(* _current_instantaneous_thermal_expansion_coef at _qp yields.  The       *)
(* result carries the locals next to the returned value.                   *)
(***************************************************************************)
\* scalar_q and grad_q: the nodal weights interpolated at the point
InterpolateQ(e, qp, q) ==
    SumInt([i \in 1..Elem(e).n_nodes |-> Elem(e).phi[i][qp] * q[i]], Elem(e).n_nodes)
GradQComponent(e, qp, q, j) ==
    IF j <= Elem(e).dim
    THEN SumInt([i \in 1..Elem(e).n_nodes |-> Elem(e).dphi[i][qp][j] * q[i]],
                Elem(e).n_nodes)
    ELSE 0
InterpolateGradQ(e, qp, q) ==
    <<GradQComponent(e, qp, q, 1), GradQComponent(e, qp, q, 2), GradQComponent(e, qp, q, 3)>>

\* aux_du: row 0 of _aux_grad_disp, the other rows zero
AuxDu(f) == <<f.aux_grad_disp[1], ZeroVector, ZeroVector>>
\* grad_disp: one row per displacement component; _grad_disp_z is _grad_zero
\* unless the mesh is three-dimensional
GradDisp(o, f) ==
    <<f.grad_disp_x, f.grad_disp_y,
      IF o.mesh_dimension = 3 THEN f.grad_disp_z ELSE ZeroVector>>
\* _grad_temp is _grad_zero unless temperature is coupled
GradTemp(o, f) == IF o.has_temp THEN f.grad_temp ELSE ZeroVector
\* dq: crack_direction(0) * grad_q_cf in row 0
DqMatrix(grad_q_cf) == <<grad_q_cf, ZeroVector, ZeroVector>>

Term1(aux_du, dq, stress_cf) == doubleContraction(aux_du, MatMul(dq, stress_cf))
Term2Of(grad_disp_cf, tmp2) ==
    grad_disp_cf[1][1] * tmp2[1][1] + grad_disp_cf[2][1] * tmp2[1][2]
    + grad_disp_cf[3][1] * tmp2[1][3]
Term2(grad_disp_cf, dq, aux_stress) == Term2Of(grad_disp_cf, MatMul(dq, aux_stress))
Term3(dq, aux_stress, strain_cf) == dq[1][1] * doubleContraction(aux_stress, strain_cf)
\* variant: only the first diagonal entry of the auxiliary stress is taken
AuxStressTrace_FirstEntry(aux_stress) == aux_stress[1][1]
AuxStressTrace(aux_stress) == aux_stress[1][1] + aux_stress[2][2] + aux_stress[3][3]
Term4(o, scalar_q, aux_stress, coef, grad_temp_cf) ==
    IF o.has_temp
    THEN scalar_q * AuxStressTrace(aux_stress) * coef * grad_temp_cf[1]
    ELSE 0

\* q_avg_seg: 1 for a 2D front, else the mean of the two segment lengths
QAvgSeg(o, is_2d) ==
    IF ~is_2d
    THEN RealDiv(RealAdd(getCrackFrontForwardSegmentLength(o.crack_front_point_index),
                         getCrackFrontBackwardSegmentLength(o.crack_front_point_index)),
                 R(2))
    ELSE R(1)

\* variant: the symmetry plane is ignored
SymmetryScaled_Ignored(o, eq) == eq
\* if (_has_symmetry_plane) eq *= 2.0
SymmetryScaled(o, eq) == IF o.has_symmetry_plane THEN eq * 2 ELSE eq

\* return eq / q_avg_seg
QpNormalize(o, is_2d, t, eq, q_avg_seg) ==
    [scalar_q |-> t.scalar_q, term1 |-> t.term1, term2 |-> t.term2,
     term3 |-> t.term3, term4 |-> t.term4,
     coef_read |-> o.has_temp, segments_read |-> ~is_2d,
     eq |-> eq, q_avg_seg |-> q_avg_seg,
     value |-> RealDiv(R(eq), q_avg_seg)]

QpFinish(o, is_2d, t) ==
    QpNormalize(o, is_2d, t,
                SymmetryScaled(o, t.term1 + t.term2 - t.term3 + t.term4),
                QAvgSeg(o, is_2d))

QpTerms(o, f, coef, scalar_q, dq, grad_disp_cf, stress_cf, strain_cf, grad_temp_cf) ==
    [scalar_q |-> scalar_q,
     term1 |-> Term1(AuxDu(f), dq, stress_cf),
     term2 |-> Term2(grad_disp_cf, dq, f.aux_stress),
     term3 |-> Term3(dq, f.aux_stress, strain_cf),
     term4 |-> Term4(o, scalar_q, f.aux_stress, coef, grad_temp_cf)]

computeQpIntegral(o, is_2d, e, qp, q, f, coef) ==
    QpFinish(o, is_2d,
        QpTerms(o, f, coef,
            InterpolateQ(e, qp, q),
            DqMatrix(rotateVectorToCrackFrontCoords(InterpolateGradQ(e, qp, q),
                                                    o.crack_front_point_index)),
            rotateToCrackFrontCoords(GradDisp(o, f), o.crack_front_point_index),
            rotateToCrackFrontCoords(DenseSymm(f.stress), o.crack_front_point_index),
            rotateToCrackFrontCoords(DenseSymm(f.strain), o.crack_front_point_index),
            rotateVectorToCrackFrontCoords(GradTemp(o, f), o.crack_front_point_index)))

(***************************************************************************)
(* InteractionIntegral::computeIntegral for element e.  old_q is the       *)
(* object's _q_curr_elem on entry, junk what a read outside the            *)
(* generator's rings or through a NULL property pointer hands back.        *)
(***************************************************************************)
RingBase(o) == IF o.q_function_type = "TOPOLOGY" THEN U32(0) ELSE U32(1)
InternalRing(o) == U32Sub(o.ring_index, RingBase(o))

\* the generator call made for local node i: which generator, with what
GeneratorCall(o, e, i) ==
    [generator |-> IF o.q_function_type = "GEOMETRY"
                   THEN "DomainIntegralQFunction"
                   ELSE "DomainIntegralTopologicalQFunction",
     point |-> o.crack_front_point_index,
     ring |-> InternalRing(o),
     node |-> get_node(e, i)]

CallInRange(c) ==
    IF c.generator = "DomainIntegralQFunction"
    THEN GeometryRingInRange(c.ring)
    ELSE TopologyRingInRange(c.ring)

CallResult(c, junk) ==
    IF ~CallInRange(c) THEN junk
    ELSE IF c.generator = "DomainIntegralQFunction"
         THEN DomainIntegralQFunction(c.point, c.ring, c.node)
         ELSE DomainIntegralTopologicalQFunction(c.point, c.ring, c.node)

\* the node loop: the calls made for local nodes 1..n, and what they return
RECURSIVE GeneratorCalls(_, _, _)
GeneratorCalls(o, e, n) ==
    IF n = 0 THEN <<>> ELSE Append(GeneratorCalls(o, e, n - 1), GeneratorCall(o, e, n))

RECURSIVE PushBackAll(_, _, _)
PushBackAll(list, calls, junk) ==
    IF calls = <<>> THEN list
    ELSE PushBackAll(Append(list, CallResult(Head(calls), junk)), Tail(calls), junk)

\* variant: the list is not cleared before the node loop
RebuildQ_NoClear(old_q, calls, junk) == PushBackAll(old_q, calls, junk)
\* _q_curr_elem.clear() followed by one push_back per node
RebuildQ(old_q, calls, junk) == PushBackAll(<<>>, calls, junk)

CoefRead(o, f, junk) == IF o.coef_ptr = "NULL" THEN junk ELSE f.thermal_expansion_coef

\* the quadrature loop: computeQpIntegral at points 1..n
RECURSIVE QpValues(_, _, _, _, _, _)
QpValues(o, is_2d, e, q, junk, n) ==
    IF n = 0 THEN <<>>
    ELSE Append(QpValues(o, is_2d, e, q, junk, n - 1),
                computeQpIntegral(o, is_2d, e, n, q, FieldAt(e, n),
                                  CoefRead(o, FieldAt(e, n), junk)))

\* sum += _JxW[_qp] * _coord[_qp] * computeQpIntegral()
RECURSIVE QuadratureSum(_, _, _)
QuadratureSum(e, qps, n) ==
    IF n = 0 THEN R(0)
    ELSE RealAdd(QuadratureSum(e, qps, n - 1),
                 RealMul(RealMul(R(Elem(e).JxW[n]), R(Elem(e).coord[n])), qps[n].value))

ElementResult(o, e, calls, q, qps) ==
    [elem |-> e, sum |-> QuadratureSum(e, qps, Elem(e).n_points),
     q_curr_elem |-> q, calls |-> calls, qps |-> qps,
     null_deref |-> o.has_temp /\ o.coef_ptr = "NULL"]

IntegrateWith(o, is_2d, e, calls, q, junk) ==
    ElementResult(o, e, calls, q,
                  QpValues(o, is_2d, e, q, junk, Elem(e).n_points))

IntegrateElement(o, is_2d, e, old_q, junk, calls) ==
    IntegrateWith(o, is_2d, e, calls, RebuildQ(old_q, calls, junk), junk)

computeIntegral(o, is_2d, e, old_q, junk) ==
    IntegrateElement(o, is_2d, e, old_q, junk,
                     GeneratorCalls(o, e, Elem(e).n_nodes))

(***************************************************************************)
(* InteractionIntegral::getValue.  Every partition calls it; the call of    *)
(* gatherSum is a collective that returns on no partition before all have  *)
(* entered it and leaves the sum of all partitions' _integral_value in     *)
(* each partition's _integral_value.  From there on each partition adds    *)
(* the T-stress term to its own value in place and returns it scaled.      *)
(***************************************************************************)
\* the partitions' values combined in rank order
RECURSIVE SumOverProcs(_, _)
SumOverProcs(vals, n) == IF n = 0 THEN R(0) ELSE RealAdd(SumOverProcs(vals, n - 1), vals[n])
AllProcs(total) == [p \in Procs |-> total]
gatherSum(vals) == AllProcs(SumOverProcs(vals, NumProcs))

\* variant: the call is left out, every partition keeps its own sum
GatherCall_Skipped(vals) == vals
\* gatherSum(_integral_value)
GatherCall(vals) == gatherSum(vals)

\* variant: the 2D flag is not consulted
TStressApplies_Ignores2D(o, cached_2d) == o.t_stress
TStressApplies(o, cached_2d) == o.t_stress /\ ~cached_2d

\* variant: the term is added once per partition
TStressTerm_PerPartition(o) ==
    RealMul(R(NumProcs),
            RealMul(o.poissons_ratio,
                    getCrackFrontTangentialStrain(o.crack_front_point_index)))
TStressTerm(o) ==
    RealMul(o.poissons_ratio, getCrackFrontTangentialStrain(o.crack_front_point_index))

Finalize(o, added, total, corrected) ==
    [reduced |-> total, t_stress_added |-> added,
     integral_value |-> corrected,
     result |-> RealMul(o.K_factor, corrected)]

\* the rest of getValue on one partition, total its _integral_value after gatherSum
CorrectAndScale(o, cached_2d, total) ==
    Finalize(o, TStressApplies(o, cached_2d), total,
             IF TStressApplies(o, cached_2d) THEN RealAdd(total, TStressTerm(o)) ELSE total)

(***************************************************************************)
(* The constructor: the member initialisers and the two checks of its body.*)
(***************************************************************************)
Members(par) ==
    [has_crack_front_point_index |-> par.has_crack_front_point_index,
     crack_front_point_index |->
        IF par.has_crack_front_point_index THEN par.crack_front_point_index ELSE 0,
     mesh_dimension |-> par.mesh_dimension,
     has_temp |-> par.temp_coupled,
     coef_ptr |-> IF par.has_thermal_expansion_coef THEN "property" ELSE "NULL",
     K_factor |-> par.K_factor,
     has_symmetry_plane |-> par.has_symmetry_plane,
     t_stress |-> par.t_stress,
     poissons_ratio |-> par.poissons_ratio,
     ring_index |-> par.ring_index,
     q_function_type |-> par.q_function_type,
     ring_first |-> IF par.q_function_type = "TOPOLOGY"
                    THEN (IF par.has_ring_first THEN par.ring_first ELSE U32(0))
                    ELSE "uninitialised"]

\* variant: the constructor checks nothing
ConstructorError_Unchecked(o) == FALSE
\* the mooseError of the constructor body
ConstructorError(o) == o.has_temp /\ o.coef_ptr = "NULL"

(***************************************************************************)
(* Input parameters.  Three families around one base: the kernel's         *)
(* switches in every combination at every crack-front point, the           *)
(* finalizer's switch at every crack-front point, and every weight kind,   *)
(* ring index and ring_first setting.                                      *)
(***************************************************************************)
BaseParams ==
    [temp_coupled |-> TRUE, has_thermal_expansion_coef |-> TRUE,
     has_symmetry_plane |-> TRUE, t_stress |-> TRUE,
     has_crack_front_point_index |-> TRUE, crack_front_point_index |-> 1,
     mesh_dimension |-> 3,
     K_factor |-> R(3), poissons_ratio |-> RealDiv(R(3), R(10)),
     ring_index |-> U32(1), q_function_type |-> "GEOMETRY",
     has_ring_first |-> FALSE, ring_first |-> U32(0)]

AtPoint(par, pt) ==
    [par EXCEPT !.has_crack_front_point_index = (pt # 0), !.crack_front_point_index = pt]

KernelParams ==
    { AtPoint([BaseParams EXCEPT !.temp_coupled = tc, !.has_thermal_expansion_coef = hc,
                                 !.has_symmetry_plane = sy], pt) :
        tc \in BOOLEAN, hc \in BOOLEAN, sy \in BOOLEAN, pt \in PointIndices }

FinalizerParams ==
    { AtPoint([BaseParams EXCEPT !.t_stress = ts], pt) :
        ts \in BOOLEAN, pt \in PointIndices }

RingIndices == {0, 1, 2}
RingParams ==
    { [BaseParams EXCEPT !.ring_index = U32(ri), !.q_function_type = "GEOMETRY"] :
        ri \in RingIndices }
    \cup
    { [BaseParams EXCEPT !.ring_index = U32(ri), !.q_function_type = "TOPOLOGY",
                         !.has_ring_first = rf,
                         !.ring_first = IF rf THEN U32(1) ELSE U32(0)] :
        ri \in RingIndices, rf \in BOOLEAN }

ParamSpace == KernelParams \cup FinalizerParams \cup RingParams

(***************************************************************************)
(* State.                                                                  *)
(***************************************************************************)
VARIABLES
    phase,                   \* where the object is in its life
    params,                  \* the InputParameters it is built from
    crack_front_definition,  \* the CrackFrontDefinition user object
    self,                    \* the members the constructor sets
    treat_as_2d,             \* _treat_as_2d, cached by initialSetup
    integral_value,          \* _integral_value of each partition's object
    q_curr_elem,             \* _q_curr_elem of each partition's object
    owner,                   \* the mesh partition: which partition owns each element
    pc,                      \* where each partition is in the current pass
    done,                    \* per element: has it been executed in this pass
    contrib,                 \* per element: what computeIntegral returned this pass
    last,                    \* the computeIntegral call the latest action made, with its locals
    final,                   \* per partition: its latest getValue return, with its locals
    ncalls                   \* per partition: getValue calls since the pass began

vars == <<phase, params, crack_front_definition, self, treat_as_2d, integral_value,
          q_curr_elem, owner, pc, done, contrib, last, final, ncalls>>

\* Partitions are interchangeable, so the assignments of elements to partitions
\* are taken up to renaming: element 1 is on partition 1, and an element is on a
\* partition used by an earlier element or on the first unused one.
RECURSIVE MaxOwner(_, _)
MaxOwner(a, n) ==
    IF n = 0 THEN 0
    ELSE IF a[n] > MaxOwner(a, n - 1) THEN a[n] ELSE MaxOwner(a, n - 1)
Partitions == {a \in [Elems -> Procs] : \A e \in Elems : a[e] <= MaxOwner(a, e - 1) + 1}

NoObject == [constructed |-> FALSE]
NoCall == [elem |-> 0]
NoValue == [called |-> FALSE]

Init ==
    /\ phase = "unconstructed"
    /\ params \in ParamSpace
    /\ crack_front_definition \in [treat_as_2d : BOOLEAN]
    /\ self = NoObject
    /\ treat_as_2d = FALSE
    /\ integral_value = [p \in Procs |-> R(0)]
    /\ q_curr_elem = [p \in Procs |-> <<>>]
    /\ owner \in Partitions
    /\ pc = [p \in Procs |-> "idle"]
    /\ done = [e \in Elems |-> FALSE]
    /\ contrib = [e \in Elems |-> R(0)]
    /\ last = NoCall
    /\ final = [p \in Procs |-> NoValue]
    /\ ncalls = [p \in Procs |-> 0]

\* InteractionIntegral::InteractionIntegral, on every partition
Construct ==
    /\ phase = "unconstructed"
    /\ self' = Members(params)
    /\ treat_as_2d' = FALSE
    /\ phase' = IF ConstructorError(Members(params)) THEN "error" ELSE "constructed"
    /\ UNCHANGED <<params, crack_front_definition, integral_value, q_curr_elem, owner, pc,
                   done, contrib, last, final, ncalls>>

\* InteractionIntegral::initialSetup, on every partition
initialSetup ==
    /\ phase = "constructed"
    /\ treat_as_2d' = treatAs2D(crack_front_definition)
    /\ phase' = "setup"
    /\ UNCHANGED <<params, crack_front_definition, self, integral_value, q_curr_elem,
                   owner, pc, done, contrib, last, final, ncalls>>

\* ElementIntegralPostprocessor::initialize, on every partition: a pass begins
initialize ==
    /\ phase = "setup"
    /\ \A p \in Procs : pc[p] \in {"idle", "returned"}
    /\ integral_value' = [p \in Procs |-> R(0)]
    /\ done' = [e \in Elems |-> FALSE]
    /\ contrib' = [e \in Elems |-> R(0)]
    /\ last' = NoCall
    /\ final' = [p \in Procs |-> NoValue]
    /\ ncalls' = [p \in Procs |-> 0]
    /\ pc' = [p \in Procs |-> "execute"]
    /\ UNCHANGED <<phase, params, crack_front_definition, self, treat_as_2d, q_curr_elem,
                   owner>>

\* does computeIntegral on this object read only what it may read: in-range
\* rings, and no property through a NULL pointer
Defined(o) ==
    /\ IF o.q_function_type = "GEOMETRY"
       THEN GeometryRingInRange(InternalRing(o))
       ELSE TopologyRingInRange(InternalRing(o))
    /\ ~(o.has_temp /\ o.coef_ptr = "NULL")

\* ElementIntegralPostprocessor::execute on partition p for element e:
\* _integral_value += computeIntegral()
execute(p, e) ==
    /\ pc[p] = "execute"
    /\ ~done[e]
    /\ \E junk \in IF Defined(self) THEN {0} ELSE QGarbage :
         \E r \in {computeIntegral(self, treatAs2D(crack_front_definition), e,
                                   q_curr_elem[p], junk)} :
            /\ integral_value' = [integral_value EXCEPT ![p] = RealAdd(@, r.sum)]
            /\ q_curr_elem' = [q_curr_elem EXCEPT ![p] = r.q_curr_elem]
            /\ contrib' = [contrib EXCEPT ![e] = r.sum]
            /\ last' = r
    /\ done' = [done EXCEPT ![e] = TRUE]
    /\ UNCHANGED <<phase, params, crack_front_definition, self, treat_as_2d, owner, pc,
                   final, ncalls>>

\* partition p calls getValue and enters gatherSum, where it waits
EnterGatherSum(p) ==
    /\ pc' = [pc EXCEPT ![p] = "gatherSum"]
    /\ ncalls' = [ncalls EXCEPT ![p] = @ + 1]
    /\ last' = NoCall
    /\ UNCHANGED <<phase, params, crack_front_definition, self, treat_as_2d,
                   integral_value, q_curr_elem, owner, done, contrib, final>>

\* the framework's call on partition p, once p has executed its elements
GetValue(p) ==
    /\ pc[p] = "execute"
    /\ \A e \in Elems : owner[e] = p => done[e]
    /\ EnterGatherSum(p)

\* a further call of the public getValue on partition p before the next pass
GetValueAgain(p) ==
    /\ pc[p] = "returned"
    /\ ncalls[p] < MaxGetValueCalls
    /\ EnterGatherSum(p)

\* the collective completes: every partition is in it
GatherSumCompletes ==
    /\ \A p \in Procs : pc[p] = "gatherSum"
    /\ integral_value' = GatherCall(integral_value)
    /\ pc' = [p \in Procs |-> "reduced"]
    /\ last' = NoCall
    /\ UNCHANGED <<phase, params, crack_front_definition, self, treat_as_2d, q_curr_elem,
                   owner, done, contrib, final, ncalls>>

\* partition p runs the rest of getValue and returns
GetValueReturns(p) ==
    /\ pc[p] = "reduced"
    /\ \E r \in {CorrectAndScale(self, treat_as_2d, integral_value[p])} :
          /\ integral_value' = [integral_value EXCEPT ![p] = r.integral_value]
          /\ final' = [final EXCEPT ![p] =
                          [called |-> TRUE, reduced |-> r.reduced,
                           t_stress_added |-> r.t_stress_added, result |-> r.result]]
    /\ pc' = [pc EXCEPT ![p] = "returned"]
    /\ last' = NoCall
    /\ UNCHANGED <<phase, params, crack_front_definition, self, treat_as_2d, q_curr_elem,
                   owner, done, contrib, ncalls>>

Next ==
    \/ Construct
    \/ initialSetup
    \/ initialize
    \/ \E e \in Elems : execute(owner[e], e)
    \/ \E p \in Procs : GetValue(p)
    \/ GatherSumCompletes
    \/ \E p \in Procs : GetValueReturns(p)

Spec == Init /\ [][Next]_vars

NextAnyCalls == Next \/ \E p \in Procs : GetValueAgain(p)

SpecAnyCalls == Init /\ [][NextAnyCalls]_vars

(***************************************************************************)
(* Properties.                                                             *)
(***************************************************************************)
ExactNeg(x) == [x EXCEPT !.s = 1 - x.s]
ExactAbs(x) == [x EXCEPT !.s = 0]
\* a <= b for finite values
ExactLeq(a, b) == ExactAdd(b, ExactNeg(a)).m = <<>> \/ ExactAdd(b, ExactNeg(a)).s = 0

\* the per-element contributions of the current pass summed without rounding,
\* their magnitudes summed without rounding, and their sum in double in the
\* order of the elements
RECURSIVE ExactSumContrib(_)
ExactSumContrib(n) ==
    IF n = 0 THEN R(0) ELSE ExactAdd(ExactSumContrib(n - 1), contrib[n])
RECURSIVE ExactAbsSumContrib(_)
ExactAbsSumContrib(n) ==
    IF n = 0 THEN R(0) ELSE ExactAdd(ExactAbsSumContrib(n - 1), ExactAbs(contrib[n]))
RECURSIVE SumContrib(_)
SumContrib(n) == IF n = 0 THEN R(0) ELSE RealAdd(SumContrib(n - 1), contrib[n])

AllContribFinite == \A e \in Elems : IsFinite(contrib[e])

\* what the rounding of the additions can amount to, whatever their order:
\* NumElems * 2^-53 * the sum of the magnitudes
RoundingBoundOf(abs_sum) ==
    Dyadic(0, BigMulLimb(abs_sum.m, NumElems, 0), abs_sum.e - MantissaBits)
RoundingBound == RoundingBoundOf(ExactAbsSumContrib(NumElems))

\* S: total is the sum of the pass's contributions as double addition gives it
\* in some order: within the rounding bound of their exact sum, and the
\* infinity or NaN they add up to when they are not all finite
IsSumOfContributions(total) ==
    IF AllContribFinite
    THEN /\ IsFinite(total)
         /\ ExactLeq(ExactAbs(ExactAdd(total, ExactNeg(ExactSumContrib(NumElems)))),
                     RoundingBound)
    ELSE total = SumContrib(NumElems)

\* C: the T-stress correction the configuration calls for
PassCorrection ==
    IF params.t_stress /\ ~crack_front_definition.treat_as_2d
    THEN RealMul(params.poissons_ratio,
                 R(CrackFrontPoints[self.crack_front_point_index + 1].tangential_strain))
    ELSE R(0)

\* C1: the value getValue returns at the end of a pass is
\* K_factor * (S + C): S the sum of the pass's per-element contributions over
\* all partitions, C the T-stress term poissons_ratio * tangentialStrain(point)
\* when t_stress is set and the front is not 2D, else 0, entering once.
C1_ValueIsScaledSumPlusCorrection ==
    \A p \in Procs :
       final[p].called =>
          /\ final[p].result =
                RealMul(params.K_factor, RealAdd(final[p].reduced, PassCorrection))
          /\ IsSumOfContributions(final[p].reduced)

C1_Witness ==
    /\ \A p \in Procs : final[p].called
    /\ params.t_stress /\ ~crack_front_definition.treat_as_2d
    /\ \A e \in Elems : IsFinite(contrib[e]) /\ contrib[e] # R(0)
    /\ \E e1, e2 \in Elems : owner[e1] # owner[e2]
    /\ final[1].reduced # R(0)
    /\ final[1].result # RealMul(params.K_factor, final[1].reduced)

\* C2: when the front is treated as 2D, by the flag initialSetup cached or by
\* the crack-front definition's own, every quadrature point divides by exactly
\* 1 without reading the segment lengths, and getValue adds no T-stress term,
\* whatever t_stress is.
C2_TwoDimensionalFront ==
    (crack_front_definition.treat_as_2d \/ treat_as_2d) =>
        /\ last.elem # 0 =>
              \A k \in DOMAIN last.qps :
                 /\ last.qps[k].q_avg_seg = R(1)
                 /\ ~last.qps[k].segments_read
                 /\ last.qps[k].value = R(last.qps[k].eq)
        /\ \A p \in Procs :
              final[p].called =>
                 /\ ~final[p].t_stress_added
                 /\ final[p].result = RealMul(params.K_factor, final[p].reduced)

C2_Witness ==
    /\ crack_front_definition.treat_as_2d /\ treat_as_2d
    /\ params.t_stress
    /\ getCrackFrontForwardSegmentLength(self.crack_front_point_index) # R(1)
    /\ \/ /\ last.elem # 0
          /\ \E k \in DOMAIN last.qps :
                last.qps[k].eq # 0 /\ last.qps[k].q_avg_seg = R(1)
          /\ \E e \in Elems : ~done[e]
       \/ /\ \A p \in Procs : final[p].called /\ ~final[p].t_stress_added
          /\ final[1].reduced # R(0)

\* C3: the accumulator is zero when a pass begins, and whatever getValue
\* reports for a pass, over any sequence of passes and getValue calls, is the
\* finalization of that pass's contributions alone: nothing an earlier
\* finalization left in the accumulator enters it.
C3_ValueDependsOnlyOnThePass ==
    /\ ((\A p \in Procs : pc[p] = "execute") /\ (\A e \in Elems : ~done[e])) =>
           \A p \in Procs : integral_value[p] = R(0)
    /\ \A p \in Procs :
          final[p].called =>
             /\ IsSumOfContributions(final[p].reduced)
             /\ final[p].result =
                   RealMul(params.K_factor, RealAdd(final[p].reduced, PassCorrection))

\* C4, as amended: the reduced total is the sum of the per-element
\* contributions computeIntegral returned, each element counted once, up to
\* the rounding of the additions, for every partition of the elements and
\* every order of visiting them and of combining the partial sums.
C4_ReducedTotalIsSumUpToRounding ==
    \A p \in Procs : final[p].called => IsSumOfContributions(final[p].reduced)

C4_Witness ==
    /\ \A p \in Procs : final[p].called
    /\ \E e1, e2 \in Elems : owner[e1] # owner[e2]
    /\ \A e \in Elems : IsFinite(contrib[e]) /\ contrib[e] # R(0)
    /\ final[1].reduced # ExactSumContrib(NumElems)
    /\ IsSumOfContributions(final[1].reduced)

\* C4, as stated: the reduced total equals the sum of the per-element
\* contributions, whatever the partition and the order of the additions.
C4_ReducedTotalIsSumOfContributions ==
    \A p \in Procs :
       (final[p].called /\ AllContribFinite) =>
          final[p].reduced = ExactSumContrib(NumElems)

\* C5: with temperature coupled and no thermal-expansion property the
\* constructor fails before any element or quadrature point is worked on;
\* whenever computeQpIntegral evaluates the thermal term, the property pointer
\* it dereferences is non-null.
C5_ThermalPropertyPresent ==
    /\ (params.temp_coupled /\ ~params.has_thermal_expansion_coef) =>
           /\ phase \in {"unconstructed", "error"}
           /\ last = NoCall
    /\ last.elem # 0 =>
           /\ ~last.null_deref
           /\ \A k \in DOMAIN last.qps :
                 last.qps[k].coef_read => self.coef_ptr = "property"

C5_Witness ==
    /\ phase = "error"
    /\ params.temp_coupled /\ ~params.has_thermal_expansion_coef

\* C6: with a front that is not 2D and forward and backward segment lengths
\* both zero, the evaluation fails with an error: no quadrature point divides
\* by the zero average and no infinite or NaN value is returned or accumulated.
C6_ZeroSegmentsAreReported ==
    /\ \A p \in Procs : IsFinite(integral_value[p])
    /\ last.elem # 0 =>
           \A k \in DOMAIN last.qps :
              /\ last.qps[k].q_avg_seg # R(0)
              /\ IsFinite(last.qps[k].value)
    /\ \A p \in Procs : final[p].called => IsFinite(final[p].result)

\* C7: no weight-function generator is ever called with an internal ring index
\* that is out of range, in particular not with the wrap-around of
\* ring_index - 1 at ring_index = 0 for Geometry, and for Topology the first
\* ring index is present before any element is processed.
C7_RingIndexValidated ==
    last.elem # 0 =>
        /\ \A i \in DOMAIN last.calls :
              /\ CallInRange(last.calls[i])
              /\ last.calls[i].ring # U32Max
        /\ params.q_function_type = "TOPOLOGY" => params.has_ring_first

\* the quadrature point k of the latest computeIntegral call evaluated again
\* on the same inputs with the symmetry flag set as given
WithSymmetryPlane(k, flag) ==
    computeQpIntegral([self EXCEPT !.has_symmetry_plane = flag],
                      crack_front_definition.treat_as_2d, last.elem, k, last.q_curr_elem,
                      FieldAt(last.elem, k),
                      FieldAt(last.elem, k).thermal_expansion_coef)
DoubledOnce(plain, doubled) ==
    /\ doubled.value = RealMul(R(2), plain.value)
    /\ doubled.eq = 2 * plain.eq
    /\ doubled.eq = 2 * (doubled.term1 + doubled.term2 - doubled.term3 + doubled.term4)
    /\ doubled.q_avg_seg = plain.q_avg_seg
    /\ <<doubled.term1, doubled.term2, doubled.term3, doubled.term4>>
         = <<plain.term1, plain.term2, plain.term3, plain.term4>>

\* C8: at every quadrature point the value returned with a symmetry plane is
\* exactly twice the value returned without one on the same inputs: the sum of
\* the four terms is doubled once, before the division, nothing else changes.
C8_SymmetryDoubles ==
    last.elem # 0 =>
        \A k \in DOMAIN last.qps :
           IF self.has_symmetry_plane
           THEN DoubledOnce(WithSymmetryPlane(k, FALSE), last.qps[k])
           ELSE DoubledOnce(last.qps[k], WithSymmetryPlane(k, TRUE))

C8_Witness ==
    /\ last.elem # 0
    /\ self.has_symmetry_plane
    /\ \E k \in DOMAIN last.qps :
          /\ IsFinite(last.qps[k].value) /\ last.qps[k].value # R(0)
          /\ last.qps[k].eq = 2 * (last.qps[k].term1 + last.qps[k].term2
                                   - last.qps[k].term3 + last.qps[k].term4)
          /\ last.qps[k].q_avg_seg \notin {R(1), R(0)}

\* C9: term4 is zero whenever temperature is not coupled, whatever q, the
\* auxiliary stress, the expansion coefficient and the temperature gradient
\* are; when it is coupled term4 is q * trace(aux_stress) * coefficient * the
\* x1 component of the rotated temperature gradient.
C9_ThermalTerm ==
    last.elem # 0 =>
        \A k \in DOMAIN last.qps :
           LET f == FieldAt(last.elem, k)
               rot == CrackFrontPoints[self.crack_front_point_index + 1].rot
               dT_dx1 == rot[1][1] * f.grad_temp[1] + rot[1][2] * f.grad_temp[2]
                         + rot[1][3] * f.grad_temp[3]
               trace == f.aux_stress[1][1] + f.aux_stress[2][2] + f.aux_stress[3][3]
           IN  last.qps[k].term4 =
                   IF params.temp_coupled
                   THEN last.qps[k].scalar_q * trace * f.thermal_expansion_coef * dT_dx1
                   ELSE 0

C9_Witness ==
    /\ last.elem # 0
    /\ params.temp_coupled
    /\ \E k \in DOMAIN last.qps : last.qps[k].term4 # 0 /\ last.qps[k].term1 # 0

\* C10: for every node of the element exactly one generator is called: the
\* geometric one with ring_index - 1 (unsigned) for Geometry, the topological
\* one with ring_index for Topology; after the node loop _q_curr_elem holds
\* one weight per node of the current element and none of an earlier element.
C10_OneWeightPerNode ==
    last.elem # 0 =>
        /\ Len(last.calls) = Elem(last.elem).n_nodes
        /\ \A i \in DOMAIN last.calls :
              /\ last.calls[i].node = get_node(last.elem, i)
              /\ params.q_function_type = "GEOMETRY" =>
                    /\ last.calls[i].generator = "DomainIntegralQFunction"
                    /\ last.calls[i].ring = U32Sub(params.ring_index, U32(1))
              /\ params.q_function_type = "TOPOLOGY" =>
                    /\ last.calls[i].generator = "DomainIntegralTopologicalQFunction"
                    /\ last.calls[i].ring = params.ring_index
        /\ q_curr_elem[owner[last.elem]] = last.q_curr_elem
        /\ Len(last.q_curr_elem) = Elem(last.elem).n_nodes
        /\ \A i \in DOMAIN last.q_curr_elem :
              CallInRange(last.calls[i]) =>
                 last.q_curr_elem[i] =
                    IF params.q_function_type = "GEOMETRY"
                    THEN DomainIntegralQFunction(self.crack_front_point_index,
                                                 last.calls[i].ring, last.calls[i].node)
                    ELSE DomainIntegralTopologicalQFunction(self.crack_front_point_index,
                                                 last.calls[i].ring, last.calls[i].node)

C10_Witness ==
    /\ last.elem # 0
    /\ params.q_function_type = "TOPOLOGY"
    /\ \E e \in Elems : e # last.elem /\ done[e] /\ owner[e] = owner[last.elem]
    /\ Len(last.q_curr_elem) = Elem(last.elem).n_nodes
    /\ \E i, j \in DOMAIN last.q_curr_elem : last.q_curr_elem[i] # last.q_curr_elem[j]

=============================================================================
